---------------------------- MODULE Spec2Model ----------------------------
(***************************************************************************)
(* Model of the Detector class of "Detection Probability.ipynb":           *)
(*                                                                         *)
(*     class Detector(object):                                             *)
(*         def __init__(self, n, k):                                       *)
(*             self.n = n                                                  *)
(*             self.k = k                                                  *)
(*         def __call__(self, s):                                          *)
(*             prob = math.pow((self.n-self.k)/self.n, s)                  *)
(*             return 1.0 - prob                                           *)
(*                                                                         *)
(* n, k and s are Python ints.  The quotient, the power and the difference *)
(* are Python floats, i.e. binary floating-point numbers rounded to        *)
(* nearest, ties to even.  A float is modelled as a record [m, e] standing *)
(* for the number m * 2^e, with m odd (or m = 0, e = 0), and |m| < 2^Prec. *)
(* Prec is the width of the significand: 53 in the doubles Python uses,    *)
(* a small number here so that the rounding cases are reached with small   *)
(* arguments.  Signed zeros are not distinguished (1.0 - 0.0 = 1.0 - -0.0).*)
(* math.pow is taken to be correctly rounded.  The exponent range of the   *)
(* doubles is not modelled: no power of the bounded arguments leaves it.   *)
(***************************************************************************)
EXTENDS Integers, Sequences, FiniteSets, TLC

VARIABLES detect, args, trials, out, seen, repeat

vars == <<detect, args, trials, out, seen, repeat>>

(* Bounds of the model. *)
Prec == 5
MaxN == 4
MaxS == 3
NegArgs == 1
NegS == 2

(* Python's None: no instance, no argument, no result yet. *)
None == [kind |-> "None"]

-----------------------------------------------------------------------------
(* Integer helpers. *)

Abs(x) == IF x < 0 THEN -x ELSE x

Max(a, b) == IF a >= b THEN a ELSE b

Min(a, b) == IF a <= b THEN a ELSE b

RECURSIVE BitLen(_)
BitLen(a) == IF a = 0 THEN 0 ELSE 1 + BitLen(a \div 2)

-----------------------------------------------------------------------------
(* Floats: m * 2^e, canonical when m is odd or the float is Zero. *)

Zero == [m |-> 0, e |-> 0]

One == [m |-> 1, e |-> 0]

RECURSIVE Norm(_, _)
Norm(m, e) ==
    IF m = 0 THEN Zero
    ELSE IF m % 2 = 0 THEN Norm(m \div 2, e + 1)
    ELSE [m |-> m, e |-> e]

FNeg(x) == [m |-> -x.m, e |-> x.e]

(* a * 2^e, a >= 0, rounded to Prec significant bits, ties to even. *)
RoundInt(a, e) ==
    LET x == BitLen(a) - Prec
    IN  IF x <= 0 THEN Norm(a, e)
        ELSE LET q    == a \div (2^x)
                 r    == a % (2^x)
                 half == 2^(x - 1)
                 up   == r > half \/ (r = half /\ q % 2 = 1)
             IN  Norm(IF up THEN q + 1 ELSE q, e + x)

(* The least t >= 0 with a * 2^t >= b * 2^Prec, for a > 0, b > 0. *)
RECURSIVE Shift(_, _)
Shift(a, b) == IF a >= b * (2^Prec) THEN 0 ELSE 1 + Shift(2 * a, b)

(* a / b, a >= 0, b > 0, rounded to Prec significant bits, ties to even:  *)
(* a quotient of more than Prec bits and a sticky bit for the remainder.  *)
RoundRat(a, b) ==
    IF a = 0 THEN Zero
    ELSE LET t  == Shift(a, b)
             sa == a * (2^t)
             q  == sa \div b
             r  == sa % b
         IN  RoundInt(2 * q + (IF r > 0 THEN 1 ELSE 0), -(t + 1))

(* x - y as an exact integer multiple of 2^Min(x.e, y.e). *)
Diff(x, y) ==
    LET e0 == Min(x.e, y.e)
    IN  x.m * (2^(x.e - e0)) - y.m * (2^(y.e - e0))

FLe(x, y) == Diff(x, y) <= 0

FLt(x, y) == Diff(x, y) < 0

(* Python int / int: true division, correctly rounded; b # 0. *)
FDiv(a, b) ==
    LET q == RoundRat(Abs(a), Abs(b))
    IN  IF (a < 0) # (b < 0) THEN FNeg(q) ELSE q

(* A power that takes the zero base first: pow(0.0, 0) = 0.0. *)
FPow_ZeroFirst(x, y) ==
    IF x.m = 0 THEN Zero
    ELSE IF y = 0 THEN One
    ELSE LET a   == Abs(x.m) ^ Abs(y)
             mag == IF y > 0
                    THEN RoundInt(a, x.e * y)
                    ELSE LET r == RoundRat(1, a)
                         IN  [m |-> r.m, e |-> r.e + x.e * y]
         IN  IF x.m < 0 /\ y % 2 = 1 THEN FNeg(mag) ELSE mag

(* math.pow(x, y) for an int y, where it returns: pow(x, 0) = 1.0 for every *)
(* x, pow(0.0, y) = 0.0 for y > 0, and the rounded power otherwise.         *)
FPow(x, y) ==
    IF y = 0 THEN One
    ELSE IF x.m = 0 THEN Zero
    ELSE LET a   == Abs(x.m) ^ Abs(y)
             mag == IF y > 0
                    THEN RoundInt(a, x.e * y)
                    ELSE LET r == RoundRat(1, a)
                         IN  [m |-> r.m, e |-> r.e + x.e * y]
         IN  IF x.m < 0 /\ y % 2 = 1 THEN FNeg(mag) ELSE mag

(* A subtraction that rounds toward zero instead of to nearest. *)
FSub_Trunc(x, y) ==
    LET d == Diff(x, y)
        a == Abs(d)
        b == BitLen(a) - Prec
        r == IF b <= 0 THEN Norm(a, Min(x.e, y.e))
             ELSE Norm(a \div (2^b), Min(x.e, y.e) + b)
    IN  IF d < 0 THEN FNeg(r) ELSE r

(* float - float, correctly rounded. *)
FSub(x, y) ==
    LET d == Diff(x, y)
        r == RoundInt(Abs(d), Min(x.e, y.e))
    IN  IF d < 0 THEN FNeg(r) ELSE r

-----------------------------------------------------------------------------
(* The class. *)

Return(v) == [kind |-> "return", val |-> v]

Raise(x) == [kind |-> "raise", exc |-> x]

(* A constructor that rejects the arguments the class documents no check   *)
(* for, by clamping them into 0 <= k <= n, n >= 1.                         *)
Detector_init_Clamped(n, k) ==
    [n |-> Max(n, 1), k |-> Min(Max(k, 0), Max(n, 1))]

(* Detector.__init__: stores its arguments, whatever they are. *)
Detector_init(n, k) == [n |-> n, k |-> k]

(* The call with the probability of a hit, k/n, as the base of the power. *)
Detector_call_Hit(self, s) ==
    [self |-> self,
     ret  |-> IF self.n = 0 THEN Raise("ZeroDivisionError")
              ELSE LET p == FDiv(self.k, self.n)
                   IN  IF p.m = 0 /\ s < 0 THEN Raise("ValueError")
                       ELSE Return(FSub(One, FPow(p, s)))]

(* The call returning prob, the probability of no detection. *)
Detector_call_Miss(self, s) ==
    [self |-> self,
     ret  |-> IF self.n = 0 THEN Raise("ZeroDivisionError")
              ELSE LET p == FDiv(self.n - self.k, self.n)
                   IN  IF p.m = 0 /\ s < 0 THEN Raise("ValueError")
                       ELSE Return(FPow(p, s))]

(* The call returning prob - 1.0. *)
Detector_call_Swap(self, s) ==
    [self |-> self,
     ret  |-> IF self.n = 0 THEN Raise("ZeroDivisionError")
              ELSE LET p == FDiv(self.n - self.k, self.n)
                   IN  IF p.m = 0 /\ s < 0 THEN Raise("ValueError")
                       ELSE Return(FSub(FPow(p, s), One))]

(* The call rejecting a negative s before it computes anything. *)
Detector_call_Checked(self, s) ==
    [self |-> self,
     ret  |-> IF s < 0 THEN Raise("ValueError")
              ELSE IF self.n = 0 THEN Raise("ZeroDivisionError")
              ELSE LET p == FDiv(self.n - self.k, self.n)
                   IN  Return(FSub(One, FPow(p, s)))]

(* The call consuming the marked elements it accounts for: self.k -= 1. *)
Detector_call_Mutating(self, s) ==
    [self |-> [self EXCEPT !.k = self.k - 1],
     ret  |-> IF self.n = 0 THEN Raise("ZeroDivisionError")
              ELSE LET p == FDiv(self.n - self.k, self.n)
                   IN  IF p.m = 0 /\ s < 0 THEN Raise("ValueError")
                       ELSE Return(FSub(One, FPow(p, s)))]

(* Detector.__call__: the instance after the call and what the call gives. *)
(* The division raises ZeroDivisionError for self.n = 0, and math.pow      *)
(* raises ValueError for a zero base with a negative exponent.             *)
Detector_call(self, s) ==
    [self |-> self,
     ret  |-> IF self.n = 0 THEN Raise("ZeroDivisionError")
              ELSE LET p == FDiv(self.n - self.k, self.n)
                   IN  IF p.m = 0 /\ s < 0 THEN Raise("ValueError")
                       ELSE LET prob == FPow(p, s)
                            IN  Return(FSub(One, prob))]

-----------------------------------------------------------------------------
(* The notebook: one instance is constructed, then called any number of    *)
(* times.  args records the constructor's arguments, seen the first result *)
(* of each sample count, repeat whether the last call repeated a count.    *)

NArgs == (-NegArgs)..MaxN

KArgs == (-NegArgs)..(MaxN + 1)

SArgs == (-NegS)..MaxS

Init ==
    /\ detect = None
    /\ args = None
    /\ trials = None
    /\ out = None
    /\ seen = [s \in SArgs |-> None]
    /\ repeat = FALSE

Construct ==
    /\ detect = None
    /\ \E n \in NArgs, k \in KArgs :
          /\ detect' = Detector_init(n, k)
          /\ args' = <<n, k>>
    /\ UNCHANGED <<trials, out, seen, repeat>>

Call ==
    /\ detect # None
    /\ \E s \in SArgs :
          LET c == Detector_call(detect, s)
          IN  /\ detect' = c.self
              /\ trials' = s
              /\ out' = c.ret
              /\ repeat' = (seen[s] # None)
              /\ seen' = IF seen[s] = None THEN [seen EXCEPT ![s] = c.ret]
                         ELSE seen
    /\ UNCHANGED args

Next == Construct \/ Call

Spec == Init /\ [][Next]_vars

-----------------------------------------------------------------------------
(* Vocabulary of the properties. *)

(* The instance exists and its fields satisfy n > 0, 0 <= k <= n. *)
Valid ==
    /\ detect # None
    /\ detect.n > 0
    /\ 0 <= detect.k
    /\ detect.k <= detect.n

(* The last call was made on a valid instance with s >= 0. *)
ValidCall == Valid /\ out # None /\ trials >= 0

RECURSIVE IPow(_, _)
IPow(b, x) == IF x = 0 THEN 1 ELSE b * IPow(b, x - 1)

(* 1 - ((n - k)/n)^s as the exact fraction ExactNum / ExactDen. *)
ExactDen == IPow(detect.n, trials)

ExactNum == IPow(detect.n, trials) - IPow(detect.n - detect.k, trials)

(* The returned float as the fraction ValNum / ValDen. *)
ValDen == 2^Max(0, -out.val.e)

ValNum == out.val.m * (2^Max(0, out.val.e))

(* The float math.pow returned inside the last call. *)
Prob == FPow(FDiv(detect.n - detect.k, detect.n), trials)

(* Half a unit in the last place of the floats just below 1.0. *)
HalfUlp == [m |-> 1, e |-> -(Prec + 1)]

-----------------------------------------------------------------------------
(* C1, as stated: on a valid instance and s >= 0 the call returns exactly  *)
(* the real number 1 - ((n - k)/n)^s.                                      *)
C1_Exact ==
    ValidCall =>
        /\ out.kind = "return"
        /\ ValNum * ExactDen = ExactNum * ValDen

(* C1, amended: on a valid instance and s >= 0 the call returns the        *)
(* formula 1 - ((n - k)/n)^s evaluated in floating point, which is within  *)
(* 3 * (s + 2) * 2^-Prec of the real number (Prec = 53 for doubles).       *)
C1_WithinRounding ==
    ValidCall =>
        /\ out.kind = "return"
        /\ Abs(ValNum * ExactDen - ExactNum * ValDen) * (2^Prec)
              <= 3 * (trials + 2) * ValDen * ExactDen

(* A call whose result is not the real number, for a rounded quotient. *)
C1_Witness ==
    /\ ValidCall
    /\ trials >= 1
    /\ out.kind = "return"
    /\ ValNum * ExactDen # ExactNum * ValDen

C5_ZeroSamples == (ValidCall /\ trials = 0) => out = Return(Zero)

(* The call with s = 0 on an instance with k = n, where the power is 0^0. *)
C5_Witness ==
    /\ ValidCall
    /\ trials = 0
    /\ detect.k = detect.n
    /\ out = Return(Zero)

(* C6: on an instance with k = n > 0 the call returns 1 for every s >= 1.  *)
C6_AllMarked ==
    (ValidCall /\ detect.k = detect.n /\ trials >= 1) => out = Return(One)

(* A call with s >= 1 on an instance with k = n that returned 1. *)
C6_Witness ==
    /\ ValidCall
    /\ detect.k = detect.n
    /\ trials >= 1
    /\ out = Return(One)

(* C7: on an instance with k = 0 the call returns 0 for every s >= 0.      *)
C7_NoneMarked == (ValidCall /\ detect.k = 0) => out = Return(Zero)

(* A call with s >= 1 on an instance with k = 0 and n > 1 that returned 0. *)
C7_Witness ==
    /\ ValidCall
    /\ detect.k = 0
    /\ detect.n > 1
    /\ trials >= 1
    /\ out = Return(Zero)

(* C8: on a valid instance the results of the calls made so far are        *)
(* non-decreasing in s, for 0 <= s1 <= s2.                                 *)
C8_Monotone ==
    Valid =>
        \A s1, s2 \in 0..MaxS :
            (s1 <= s2 /\ seen[s1] # None /\ seen[s2] # None) =>
                /\ seen[s1].kind = "return"
                /\ seen[s2].kind = "return"
                /\ FLe(seen[s1].val, seen[s2].val)

(* Two calls on one instance of which the one with more samples returned   *)
(* strictly more.                                                          *)
C8_Witness ==
    /\ Valid
    /\ \E s1, s2 \in 1..MaxS :
          /\ s1 < s2
          /\ seen[s1] # None
          /\ seen[s2] # None
          /\ seen[s1].kind = "return"
          /\ seen[s2].kind = "return"
          /\ FLt(seen[s1].val, seen[s2].val)

(* C9: once the instance exists no step changes its fields, and a call     *)
(* with a sample count called before gives what the first such call gave,  *)
(* whatever calls, returning or raising, were made in between.             *)
C9_Immutable ==
    [][detect # None =>
          /\ detect' = detect
          /\ seen[trials'] # None => out' = seen[trials']]_vars

(* A repeated call, after calls with other sample counts, one of them      *)
(* raising, on an instance that still holds the constructor's arguments.   *)
C9_Witness ==
    /\ detect # None
    /\ repeat
    /\ detect = [n |-> args[1], k |-> args[2]]
    /\ out = seen[trials]
    /\ \E s \in SArgs : s # trials /\ seen[s] # None /\ seen[s].kind = "raise"

=============================================================================
